---- MODULE Spec2Model ----
(***************************************************************************)
(* Model of the FancyLogger render server: MultiprocessingLogger           *)
(* (src/FancyLogger/processing/__init__.py), the TaskProgress objects it   *)
(* keeps (src/FancyLogger/__init__.py) and the commands it receives        *)
(* (src/FancyLogger/commands/__init__.py).                                 *)
(*                                                                         *)
(* One action is the handling of one command by the dispatch loop `run`,   *)
(* including every redraw the handler calls.  Time is the wall clock in    *)
(* milliseconds (`millis()`); it advances between commands (Tick) and      *)
(* between the two redraw calls of a log/exception handler.                *)
(***************************************************************************)
EXTENDS Integers, Sequences, FiniteSets, TLC

(* ------------------------------ bounds -------------------------------- *)
\* Number of commands the dispatch loop takes off the queue in a behaviour.
MaxCmds == 4
\* Number of clock ticks in a behaviour.
MaxTicks == 2
\* Largest ring-buffer capacity a configuration asks for.
MaxCapacity == 2
\* Commands the producers of the redraw-gate specification send.
MaxGateCmds == 5
\* Commands the producers of the level-filter specification send.
MaxLevelCmds == 3
\* Commands one producer puts into the queue.
MaxPuts == 2
\* Whole weeks in the durations handed to the elapsed-time formatter.
MaxWeeks == 1

(* ------------------------- values of the program ---------------------- *)
\* Python's None in the time fields of a task (times are positive numbers).
None == -1
\* Python's None in a string field (elapsed_time_at_end).
NoneStr == "None"

DEBUG == 10
INFO == 20
WARNING == 30
ERROR == 40
CRITICAL == 50
Levels == {DEBUG, INFO, WARNING, ERROR, CRITICAL}

\* Python truthiness of a number-or-None / of a string-or-None.
Falsy(x) == x = None \/ x = 0
FalsyStr(x) == x = NoneStr \/ x = ""

(* ------------------------------ inputs -------------------------------- *)
TaskIds == {"t1", "t2"}
Totals == {0, 2}
ProgressValues == {-1, 1, 2, 3}
Texts == {"a", "b"}
Stacktraces == {"x", "y"}
\* Console levels a configuration or a SetLevel command may carry: the five
\* the handlers name, and logging.NOTSET.
ConsoleLevels == Levels \cup {0}
\* Milliseconds by which the clock advances in one tick.
Steps == {500}
RedrawFrequencies == {0, 500, 1000000}
RemovalDelays == {0, 500}
\* Milliseconds a handler may spend between its two redraw calls.
Elapse == {0, 500}

(* --------------------------- OrderedDict ------------------------------ *)
\* collections.OrderedDict: keys in insertion order, a value per key.
OD_empty == [keys |-> <<>>, val |-> <<>>]
OD_keys(od) == {od.keys[i] : i \in 1..Len(od.keys)}
OD_has(od, k) == k \in OD_keys(od)
OD_get(od, k) == od.val[CHOOSE i \in 1..Len(od.keys) : od.keys[i] = k]
\* od[k] = v : an existing key keeps its position, a new key goes last.
OD_set(od, k, v) ==
    IF OD_has(od, k)
    THEN [od EXCEPT !.val = [i \in 1..Len(od.keys) |->
                                IF od.keys[i] = k THEN v ELSE od.val[i]]]
    ELSE [keys |-> Append(od.keys, k), val |-> Append(od.val, v)]
\* del od[k], k present.
OD_del(od, k) ==
    LET idx == SelectSeq([i \in 1..Len(od.keys) |-> i], LAMBDA i : od.keys[i] # k)
    IN [keys |-> [j \in 1..Len(idx) |-> od.keys[idx[j]]],
        val  |-> [j \in 1..Len(idx) |-> od.val[idx[j]]]]

(* ---------------------------- TaskProgress ---------------------------- *)
\* TaskProgress.__init__: a fresh task as the facade builds it.
TaskProgress(total, prefix, keep_alive, display_time) ==
    [progress |-> 0,
     timeout_chrono |-> None,
     begin_time |-> None,
     end_time |-> None,
     elapsed_time_at_end |-> NoneStr,
     keep_alive |-> keep_alive,
     display_time |-> display_time,
     total |-> total,
     prefix |-> prefix,
     suffix |-> "",
     decimals |-> 0,
     bar_length |-> 4]

\* set_progress without its upper clamp.
clamp_progress_no_upper(task, progress) ==
    IF progress < 0 THEN 0 ELSE progress

\* The clamp at the head of set_progress.
clamp_progress(task, progress) ==
    IF progress > task.total THEN task.total
    ELSE IF progress < 0 THEN 0
    ELSE progress

\* TaskProgress.set_progress at time t: the task afterwards.
set_progress(task, progress, t) ==
    LET _progress == clamp_progress(task, progress)
        stopped == IF _progress = task.total /\ task.display_time
                   THEN [task EXCEPT !.end_time = t,
                                     !.begin_time = IF Falsy(@) THEN t ELSE @]
                   ELSE task
    IN  IF task.progress # _progress
        THEN [stopped EXCEPT !.progress = _progress]
        ELSE stopped

\* set_progress reporting a change whenever the raw value differs.
has_changed_unclamped(task, progress) == task.progress # progress

\* TaskProgress.set_progress: its return value has_changed.
has_changed(task, progress) == task.progress # clamp_progress(task, progress)

(* --------------------------- render engine ---------------------------- *)
\* Python 3 round(n / d) for n >= 0, d > 0: to nearest, halves to even.
py_round(n, d) ==
    LET q == n \div d
        r == n % d
    IN  IF 2 * r < d THEN q
        ELSE IF 2 * r > d THEN q + 1
        ELSE IF q % 2 = 0 THEN q ELSE q + 1

\* A formatting that leaves a zero count of seconds out.
human_readable_zero_seconds_dropped(seconds, minutes, hours, days) ==
    LET S(n) == ToString(n)
        tail == IF seconds > 0 THEN " " \o S(seconds) \o " s" ELSE ""
    IN  IF days > 0
        THEN S(days) \o " d " \o S(hours) \o " h " \o S(minutes) \o " min" \o tail
        ELSE IF hours > 0
        THEN S(hours) \o " h " \o S(minutes) \o " min" \o tail
        ELSE IF minutes > 0
        THEN S(minutes) \o " min" \o tail
        ELSE IF seconds > 0
        THEN S(seconds) \o " s"
        ELSE ""

\* millis_to_human_readable, its formatting: the text for the carried fields.
human_readable(seconds, minutes, hours, days) ==
    LET S(n) == ToString(n)
    IN  IF days > 0
        THEN S(days) \o " d " \o S(hours) \o " h " \o S(minutes)
             \o " min " \o S(seconds) \o " s"
        ELSE IF hours > 0
        THEN S(hours) \o " h " \o S(minutes) \o " min " \o S(seconds) \o " s"
        ELSE IF minutes > 0
        THEN S(minutes) \o " min " \o S(seconds) \o " s"
        ELSE IF seconds > 0
        THEN S(seconds) \o " s"
        ELSE ""

\* millis_to_human_readable, the carries of its four while loops on the
\* rounded seconds.  The last loop (`while days > 6: hours -= 7`) never
\* lowers days, so it does not end when days > 6: hangs is TRUE there.
\* weeks is still 0 whenever that loop is left.
carry(total_s) ==
    [hangs |-> total_s \div 86400 > 6,
     text  |-> human_readable(total_s % 60, (total_s \div 60) % 60,
                              (total_s \div 3600) % 24, total_s \div 86400),
     seconds |-> total_s % 60,
     minutes |-> (total_s \div 60) % 60,
     hours |-> (total_s \div 3600) % 24,
     days |-> total_s \div 86400,
     weeks |-> 0]

millis_to_human_readable(time_millis) ==
    carry(py_round(time_millis, 1000))

\* longest_bar_prefix_value: the longest prefix over the registry.
longest_bar_prefix_value(tasks) ==
    LET sizes == {Len(tasks.val[i].prefix) : i \in 1..Len(tasks.keys)} \cup {0}
    IN  CHOOSE m \in sizes : \A n \in sizes : n <= m

\* What one call of print_progress_bar writes: a bar line, field by field.
BarLine(s, id, task, elapsed_time) ==
    [task_id   |-> id,
     prefix    |-> task.prefix,
     width     |-> s.longest_bar_prefix_size,
     percents  |-> py_round(100 * task.progress, task.total),
     filled    |-> py_round(task.bar_length * task.progress, task.total),
     empty     |-> task.bar_length - py_round(task.bar_length * task.progress, task.total),
     container |-> IF ~task.display_time THEN ""
                   ELSE IF Falsy(task.end_time) THEN "()" ELSE "[]",
     time      |-> IF task.display_time THEN elapsed_time ELSE NoneStr,
     suffix    |-> task.suffix]

\* print_progress_bar, its writes: the bar line for the task as the chrono
\* code left it.  A chrono text that is never produced leaves the process
\* inside millis_to_human_readable.
write_bar(s, id, task, elapsed) ==
    IF elapsed.hangs THEN [s EXCEPT !.status = "Hung"]
    ELSE [s EXCEPT !.tasks = OD_set(@, id, task),
                   !.screen.bars = Append(@, BarLine(s, id, task, elapsed.text))]

\* print_progress_bar, `if not task.elapsed_time_at_end`: the chrono stops.
stop_chrono(s, id, task, elapsed) ==
    write_bar(s, id, [task EXCEPT !.elapsed_time_at_end = elapsed.text], elapsed)

\* print_progress_bar, the running chrono of a task whose begin_time is set.
run_chrono(s, id, task, t) ==
    write_bar(s, id, task, millis_to_human_readable(t - task.begin_time))

\* print_progress_bar(task) at time t, task being the one stored under id.
\* 100 * (progress / float(total)) raises ZeroDivisionError when total is 0,
\* before anything is written or changed: the renderer process dies.
print_task(s, id, task, t) ==
    IF task.total = 0 THEN [s EXCEPT !.status = "Crashed"]
    ELSE IF ~task.display_time
    THEN write_bar(s, id, task, [hangs |-> FALSE, text |-> NoneStr])
    ELSE IF ~Falsy(task.end_time)
    THEN IF FalsyStr(task.elapsed_time_at_end)
         THEN stop_chrono(s, id, task,
                          millis_to_human_readable(task.end_time - task.begin_time))
         ELSE write_bar(s, id, task,
                        [hangs |-> FALSE, text |-> task.elapsed_time_at_end])
    ELSE run_chrono(s, id, [task EXCEPT !.begin_time = IF Falsy(@) THEN t ELSE @], t)

print_progress_bar(s, id, t) ==
    print_task(s, id, OD_get(s.tasks, id), t)

(* ------------------------------ redraw -------------------------------- *)
\* The cleared terminal (os.system(self.os_flush_command)).
BlankScreen ==
    [bars |-> <<>>, slots |-> 0, gap_messages |-> FALSE, messages |-> <<>>,
     gap_exceptions |-> FALSE, exceptions |-> <<>>]

\* redraw, "Delete tasks that have been marked for deletion": del of a key
\* that is not in the registry raises KeyError and ends the process.
RECURSIVE delete_tasks(_, _)
delete_tasks(s, ids) ==
    IF ids = <<>> THEN s
    ELSE IF ~OD_has(s.tasks, Head(ids)) THEN [s EXCEPT !.status = "Crashed"]
    ELSE delete_tasks([s EXCEPT !.tasks = OD_del(@, Head(ids)),
                                !.purged = @ \cup {Head(ids)}], Tail(ids))

\* redraw forgetting the tasks it marked.
apply_deletions_dropped(s) ==
    [s EXCEPT !.to_delete = <<>>]

\* redraw emptying the list without recomputing the prefix width.
forget_deleted_keeping_width(s) ==
    [s EXCEPT !.to_delete = <<>>]

\* redraw recomputing the prefix width and keeping the list of the keys it
\* has just deleted.
forget_deleted_keeping_list(s) ==
    IF s.status # "Running" THEN s
    ELSE [s EXCEPT !.longest_bar_prefix_size = longest_bar_prefix_value(s.tasks)]

\* redraw, after the loop of deletions: the list is emptied and the prefix
\* width recomputed.
forget_deleted(s) ==
    IF s.status # "Running" THEN s
    ELSE [s EXCEPT !.to_delete = <<>>,
                   !.longest_bar_prefix_size = longest_bar_prefix_value(s.tasks)]

apply_deletions(s) ==
    IF Len(s.to_delete) > 0
    THEN forget_deleted(delete_tasks(s, s.to_delete))
    ELSE s

\* A sweep that starts the timers and never marks a task.
sweep_task_never_marking(s, id, t) ==
    LET task == OD_get(s.tasks, id)
        full == [task EXCEPT !.progress = task.total]
    IN  IF task.progress >= task.total /\ ~task.keep_alive
        THEN IF Falsy(task.timeout_chrono)
             THEN [s EXCEPT !.tasks = OD_set(@, id, [full EXCEPT !.timeout_chrono = t])]
             ELSE [s EXCEPT !.tasks = OD_set(@, id, full)]
        ELSE s

\* redraw, the body of its loop before the bar is printed: a completed task
\* that is not kept alive is clamped, then timed or marked for deletion.
sweep_task(s, id, t) ==
    LET task == OD_get(s.tasks, id)
        full == [task EXCEPT !.progress = task.total]
    IN  IF task.progress >= task.total /\ ~task.keep_alive
        THEN IF Falsy(task.timeout_chrono)
             THEN [s EXCEPT !.tasks = OD_set(@, id, [full EXCEPT !.timeout_chrono = t])]
             ELSE IF t - task.timeout_chrono >= s.task_millis_to_removal
             THEN [s EXCEPT !.tasks = OD_set(@, id, full),
                            !.to_delete = Append(@, id)]
             ELSE [s EXCEPT !.tasks = OD_set(@, id, full)]
        ELSE s

\* redraw, `for task_id, task in self.tasks.items()`.
RECURSIVE draw_tasks(_, _, _)
draw_tasks(s, ids, t) ==
    IF ids = <<>> \/ s.status # "Running" THEN s
    ELSE draw_tasks(print_progress_bar(sweep_task(s, Head(ids), t), Head(ids), t),
                    Tail(ids), t)

\* redraw, after the bars: placeholder slots, messages, exceptions.
draw_panels(s) ==
    LET slots == s.permanent_progressbar_slots - Len(s.tasks.keys)
    IN  [s EXCEPT !.screen.slots = IF slots > 0 THEN slots ELSE 0,
                  !.screen.gap_messages =
                      Len(s.messages) > 0
                      /\ (s.permanent_progressbar_slots > 0 \/ Len(s.tasks.keys) > 0),
                  !.screen.messages = s.messages,
                  !.screen.gap_exceptions = Len(s.exceptions) > 0 /\ Len(s.messages) > 0,
                  !.screen.exceptions = s.exceptions]

\* redraw, its panels, unless a bar ended the process.
draw_panels_after(s) ==
    IF s.status # "Running" THEN s ELSE draw_panels(s)

\* The gate of redraw: a repaint is due.
should_redraw(s, t) ==
    (t - s.refresh_timer > s.redraw_frequency_millis) /\ s.changes_made

\* A statement sequence: once an exception or a hang stopped the process,
\* the statements after it do not run.
Then(s, next) == IF s.status = "Running" THEN next ELSE s

\* redraw, from "Clear the system console" to its end.
repaint(s, t) ==
    Then(s, draw_panels_after(draw_tasks(s, s.tasks.keys, t)))

\* redraw resetting the change indicator before it tests the gate.
redraw_clearing_when_rejected(s, t) ==
    IF ~should_redraw(s, t)
    THEN [s EXCEPT !.nattempt = @ + 1, !.changes_made = FALSE]
    ELSE repaint(apply_deletions([s EXCEPT !.nattempt = @ + 1,
                                           !.changes_made = FALSE,
                                           !.refresh_timer = t,
                                           !.npaint = @ + 1,
                                           !.painted_at = t,
                                           !.screen = BlankScreen]), t)

\* redraw() called at time t.
redraw(s, t) ==
    IF ~should_redraw(s, t) THEN [s EXCEPT !.nattempt = @ + 1]
    ELSE repaint(apply_deletions([s EXCEPT !.nattempt = @ + 1,
                                           !.changes_made = FALSE,
                                           !.refresh_timer = t,
                                           !.npaint = @ + 1,
                                           !.painted_at = t,
                                           !.screen = BlankScreen]), t)

(* ----------------------------- handlers ------------------------------- *)
Blank(n) == [i \in 1..n |-> ""]

\* set_configuration padding the exceptions list at its head.
resize_exceptions_head_padded(exceptions, exception_number) ==
    IF exception_number < Len(exceptions)
    THEN SubSeq(exceptions, 1, exception_number)
    ELSE Blank(exception_number - Len(exceptions)) \o exceptions

\* set_configuration, the exceptions list.
resize_exceptions(exceptions, exception_number) ==
    IF Len(exceptions) > 0
    THEN IF exception_number < Len(exceptions)
         THEN SubSeq(exceptions, 1, exception_number)
         ELSE exceptions \o Blank(exception_number - Len(exceptions))
    ELSE Blank(exception_number)

\* set_configuration deleting messages from the end.
resize_messages_newest_dropped(messages, message_number) ==
    IF message_number < Len(messages)
    THEN SubSeq(messages, 1, message_number)
    ELSE Blank(message_number - Len(messages)) \o messages

\* set_configuration adding the empty message slots at the end.
resize_messages_tail_padded(messages, message_number) ==
    IF Len(messages) > 0
    THEN IF message_number < Len(messages)
         THEN SubSeq(messages, Len(messages) - message_number + 1, Len(messages))
         ELSE messages \o Blank(message_number - Len(messages))
    ELSE Blank(message_number)

\* set_configuration, the messages list.
resize_messages(messages, message_number) ==
    IF Len(messages) > 0
    THEN IF message_number < Len(messages)
         THEN SubSeq(messages, Len(messages) - message_number + 1, Len(messages))
         ELSE Blank(message_number - Len(messages)) \o messages
    ELSE Blank(message_number)

\* set_configuration marking the state as changed.
set_configuration_marking_dirty(s, command) ==
    [s EXCEPT !.permanent_progressbar_slots = command.permanent_progressbar_slots,
              !.redraw_frequency_millis = command.redraw_frequency_millis,
              !.level = command.level,
              !.task_millis_to_removal = command.task_millis_to_removal,
              !.exceptions = resize_exceptions(@, command.exception_number),
              !.messages = resize_messages(@, command.message_number),
              !.exception_number = command.exception_number,
              !.message_number = command.message_number,
              !.pushed_exceptions = <<>>,
              !.pushed_messages = <<>>,
              !.changes_made = TRUE]

set_configuration(s, command) ==
    [s EXCEPT !.permanent_progressbar_slots = command.permanent_progressbar_slots,
              !.redraw_frequency_millis = command.redraw_frequency_millis,
              !.level = command.level,
              !.task_millis_to_removal = command.task_millis_to_removal,
              !.exceptions = resize_exceptions(@, command.exception_number),
              !.messages = resize_messages(@, command.message_number),
              !.exception_number = command.exception_number,
              !.message_number = command.message_number,
              !.pushed_exceptions = <<>>,
              !.pushed_messages = <<>>]

\* append_message up to its redraw call: the list afterwards.
push_message(messages, message) ==
    Append(IF Len(messages) > 0 THEN Tail(messages) ELSE messages, message)

append_message(s, message, t) ==
    redraw([s EXCEPT !.messages = push_message(@, message),
                     !.changes_made = TRUE,
                     !.pushed_messages = Append(@, message)], t)

\* append_exception up to its redraw call: the list afterwards.
push_exception(exceptions, stacktrace) ==
    <<stacktrace>> \o (IF Len(exceptions) > 0
                       THEN SubSeq(exceptions, 1, Len(exceptions) - 1)
                       ELSE exceptions)

append_exception(s, stacktrace, t) ==
    redraw([s EXCEPT !.exceptions = push_exception(@, stacktrace),
                     !.changes_made = TRUE,
                     !.pushed_exceptions = Append(@, stacktrace)], t)

flush(s, t) ==
    redraw([s EXCEPT !.refresh_timer = 0, !.changes_made = TRUE], t)

\* time.strftime('%d %B %Y %H:%M:%S'): the clock at one-second resolution.
current_timestamp(t) == "T" \o ToString(t \div 1000)

\* set_level without its test of console_only.
set_level_file_logger_too(s, command) ==
    [s EXCEPT !.log_level = command.level, !.level = command.level]

set_level(s, command) ==
    [s EXCEPT !.log_level = IF ~command.console_only THEN command.level ELSE @,
              !.level = command.level]

\* set_task storing the task without recomputing the prefix width.
set_task_keeping_width(s, command, t) ==
    redraw([s EXCEPT !.tasks = OD_set(@, command.task_id, command.task),
                     !.changes_made = TRUE], t)

\* set_task: the task is stored under its key, the prefix width recomputed,
\* and a redraw attempted.
set_task(s, command, t) ==
    LET tasks == OD_set(s.tasks, command.task_id, command.task)
    IN  redraw([s EXCEPT !.tasks = tasks,
                         !.longest_bar_prefix_size = longest_bar_prefix_value(tasks),
                         !.changes_made = TRUE], t)

\* update marking the state dirty without looking at the registry.
update_marking_dirty(s, command, t) ==
    [s EXCEPT !.changes_made = TRUE]

\* update: set_progress runs (and may stamp the task's times) whenever the
\* key is known; the redraw only when it reports a change.
update(s, command, t) ==
    IF OD_has(s.tasks, command.task_id)
    THEN LET task == OD_get(s.tasks, command.task_id)
             after == [s EXCEPT !.tasks = OD_set(@, command.task_id,
                                             set_progress(task, command.progress, t))]
         IN  IF has_changed(task, command.progress)
             THEN redraw([after EXCEPT !.changes_made = TRUE], t)
             ELSE after
    ELSE s

\* A call of self.log.<level>(text): the record reaches the file handler
\* when its level is at least the logger's level.
log_call(s, levelno, text) ==
    [s EXCEPT !.sink = Append(@, [levelno |-> levelno, text |-> text,
                                  emitted |-> levelno >= s.log_level])]

\* The redraw a handler calls itself, after the one its append call made.
redraw_again(s, t) ==
    Then(s, redraw([s EXCEPT !.changes_made = TRUE], t))

\* The handler's closing call of self.log.<level>.
log_after(s, levelno, text) ==
    Then(s, log_call(s, levelno, text))

\* The common shape of debug/info/warning/error/critical: shown tells whether
\* the console level lets the message through.
post(s, shown, name, levelno, tabs, command, t1, t2) ==
    IF shown
    THEN log_after(redraw_again(append_message(s,
                       current_timestamp(t1) \o " [" \o name \o "]\t"
                           \o command.text \o "\n", t1), t2),
                   levelno, tabs \o command.text)
    ELSE log_after(s, levelno, tabs \o command.text)

debug(s, command, t1, t2) ==
    post(s, s.level = DEBUG, "DEBUG", DEBUG, "\t", command, t1, t2)

info(s, command, t1, t2) ==
    post(s, s.level = DEBUG \/ s.level = INFO, "INFO", INFO, "\t\t", command, t1, t2)

warning(s, command, t1, t2) ==
    post(s, s.level = DEBUG \/ s.level = INFO \/ s.level = WARNING,
         "WARNING", WARNING, "\t", command, t1, t2)

error(s, command, t1, t2) ==
    post(s, s.level = DEBUG \/ s.level = INFO \/ s.level = WARNING \/ s.level = ERROR,
         "ERROR", ERROR, "\t", command, t1, t2)

critical(s, command, t1, t2) ==
    post(s, s.level = DEBUG \/ s.level = INFO \/ s.level = WARNING \/ s.level = ERROR
            \/ s.level = CRITICAL,
         "CRITICAL", CRITICAL, "\t", command, t1, t2)

\* throw, for the message it formatted.
throw_message(s, message, t1, t2) ==
    log_after(redraw_again(append_exception(s, message, t1), t2),
              CRITICAL, "\t" \o message)

throw(s, command, t1, t2) ==
    throw_message(s, current_timestamp(t1) \o " [EXCEPTION]\t[Process " \o command.pid
                     \o (IF command.process_title # NoneStr
                         THEN " - " \o command.process_title ELSE "")
                     \o "]:\n" \o command.stacktrace \o "\n", t1, t2)

\* One turn of the loop of run: the isinstance chain, for the command o taken
\* off the queue at time t1; t2 is the time of a handler's second redraw.
run(s, o, t1, t2) ==
    IF o.cls = "LogMessageCommand"
    THEN IF o.level = DEBUG THEN debug(s, o, t1, t2)
         ELSE IF o.level = INFO THEN info(s, o, t1, t2)
         ELSE IF o.level = WARNING THEN warning(s, o, t1, t2)
         ELSE IF o.level = ERROR THEN error(s, o, t1, t2)
         ELSE IF o.level = CRITICAL THEN critical(s, o, t1, t2)
         ELSE s
    ELSE IF o.cls = "UpdateProgressCommand" THEN update(s, o, t1)
    ELSE IF o.cls = "NewTaskCommand" THEN set_task(s, o, t1)
    ELSE IF o.cls = "FlushCommand" THEN flush(s, t1)
    ELSE IF o.cls = "StacktraceCommand" THEN throw(s, o, t1, t2)
    ELSE IF o.cls = "SetConfigurationCommand" THEN set_configuration(s, o)
    ELSE IF o.cls = "ExitCommand" THEN [s EXCEPT !.status = "Exited"]
    ELSE IF o.cls = "SetLevelCommand" THEN set_level(s, o)
    ELSE s

(* ------------------------------- state -------------------------------- *)
VARIABLES
    \* fields of MultiprocessingLogger
    tasks, to_delete, exceptions, messages, permanent_progressbar_slots,
    redraw_frequency_millis, level, task_millis_to_removal,
    longest_bar_prefix_size, refresh_timer, changes_made,
    \* the process and what it talks to
    status,          \* "Running", "Exited" (ExitCommand), "Crashed" (uncaught
                     \* exception), "Hung" (a loop that does not end)
    now,             \* the wall clock, millis()
    screen,          \* what stdout shows since the last clear
    log_level,       \* level of the file logger self.log
    sink,            \* calls of self.log.<level> made by the last command
    \* observations of the run
    o,               \* the command the loop handled last
    ncmd,            \* number of commands handled
    nattempt,        \* calls of redraw made by the last command
    npaint,          \* repaints made by the last command
    purged,          \* keys the last command deleted from the registry
    painted_at,      \* the time of the last repaint, None before the first
    message_number,  \* capacities asked for by the last configuration
    exception_number,
    pushed_messages,   \* entries pushed since the last configuration
    pushed_exceptions,
    \* the multiprocessing.Queue between the producers and the loop
    buffers,         \* per producer: commands put and not yet in the pipe
    queue,           \* the pipe: commands the loop has not taken yet
    channel,         \* every command that entered the pipe, in pipe order
    handled,         \* every command the loop took off the pipe, in order
    reached_at,      \* per key: when the task's progress last reached its
                     \* total, None while it is below it or there is no task
    \* a call of millis_to_human_readable on its own
    time_millis,     \* its argument
    output           \* where the call stands and what it returned

vars == <<tasks, to_delete, exceptions, messages, permanent_progressbar_slots,
          redraw_frequency_millis, level, task_millis_to_removal,
          longest_bar_prefix_size, refresh_timer, changes_made, status, now,
          screen, log_level, sink, o, ncmd, nattempt, npaint, purged,
          painted_at, message_number, exception_number, pushed_messages, pushed_exceptions,
          buffers, queue, channel, handled, reached_at, time_millis, output>>

\* The processes that hold the facade and put commands.
Producers == {"p1", "p2"}

\* The renderer as one value, for the handlers above.
Self ==
    [tasks |-> tasks, to_delete |-> to_delete, exceptions |-> exceptions,
     messages |-> messages,
     permanent_progressbar_slots |-> permanent_progressbar_slots,
     redraw_frequency_millis |-> redraw_frequency_millis, level |-> level,
     task_millis_to_removal |-> task_millis_to_removal,
     longest_bar_prefix_size |-> longest_bar_prefix_size,
     refresh_timer |-> refresh_timer, changes_made |-> changes_made,
     status |-> status, screen |-> screen, log_level |-> log_level,
     sink |-> sink, nattempt |-> nattempt, npaint |-> npaint, purged |-> purged,
     painted_at |-> painted_at,
     message_number |-> message_number, exception_number |-> exception_number,
     pushed_messages |-> pushed_messages, pushed_exceptions |-> pushed_exceptions]

Commit(s) ==
    /\ tasks' = s.tasks
    /\ to_delete' = s.to_delete
    /\ exceptions' = s.exceptions
    /\ messages' = s.messages
    /\ permanent_progressbar_slots' = s.permanent_progressbar_slots
    /\ redraw_frequency_millis' = s.redraw_frequency_millis
    /\ level' = s.level
    /\ task_millis_to_removal' = s.task_millis_to_removal
    /\ longest_bar_prefix_size' = s.longest_bar_prefix_size
    /\ refresh_timer' = s.refresh_timer
    /\ changes_made' = s.changes_made
    /\ status' = s.status
    /\ screen' = s.screen
    /\ log_level' = s.log_level
    /\ sink' = s.sink
    /\ nattempt' = s.nattempt
    /\ npaint' = s.npaint
    /\ purged' = s.purged
    /\ painted_at' = s.painted_at
    /\ message_number' = s.message_number
    /\ exception_number' = s.exception_number
    /\ pushed_messages' = s.pushed_messages
    /\ pushed_exceptions' = s.pushed_exceptions

\* The same, for the first state.
Start(s) ==
    /\ tasks = s.tasks
    /\ to_delete = s.to_delete
    /\ exceptions = s.exceptions
    /\ messages = s.messages
    /\ permanent_progressbar_slots = s.permanent_progressbar_slots
    /\ redraw_frequency_millis = s.redraw_frequency_millis
    /\ level = s.level
    /\ task_millis_to_removal = s.task_millis_to_removal
    /\ longest_bar_prefix_size = s.longest_bar_prefix_size
    /\ refresh_timer = s.refresh_timer
    /\ changes_made = s.changes_made
    /\ status = s.status
    /\ screen = s.screen
    /\ log_level = s.log_level
    /\ sink = s.sink
    /\ nattempt = s.nattempt
    /\ npaint = s.npaint
    /\ purged = s.purged
    /\ painted_at = s.painted_at
    /\ message_number = s.message_number
    /\ exception_number = s.exception_number
    /\ pushed_messages = s.pushed_messages
    /\ pushed_exceptions = s.pushed_exceptions

(* ------------------------------ commands ------------------------------ *)
\* The command classes of commands/__init__.py, as the facade builds them.
LogMessageCommand(text, lvl) ==
    [cls |-> "LogMessageCommand", text |-> text, level |-> lvl]
UpdateProgressCommand(task_id, progress) ==
    [cls |-> "UpdateProgressCommand", task_id |-> task_id, progress |-> progress]
NewTaskCommand(task_id, task) ==
    [cls |-> "NewTaskCommand", task_id |-> task_id, task |-> task]
StacktraceCommand(pid, stacktrace, process_title) ==
    [cls |-> "StacktraceCommand", pid |-> pid, stacktrace |-> stacktrace,
     process_title |-> process_title]
SetConfigurationCommand(message_no, exception_no, slots, frequency, lvl, removal) ==
    [cls |-> "SetConfigurationCommand",
     message_number |-> message_no,
     exception_number |-> exception_no,
     permanent_progressbar_slots |-> slots,
     redraw_frequency_millis |-> frequency,
     level |-> lvl,
     task_millis_to_removal |-> removal]
SetLevelCommand(lvl, console_only) ==
    [cls |-> "SetLevelCommand", level |-> lvl, console_only |-> console_only]
FlushCommand == [cls |-> "FlushCommand"]
ExitCommand == [cls |-> "ExitCommand"]

(* ------------------------------- Init --------------------------------- *)
\* The class attributes of MultiprocessingLogger before __init__ runs:
\* messages and exceptions are None (no list yet), refresh_timer is the time
\* the class was loaded.
ClassAttributes ==
    [tasks |-> OD_empty, to_delete |-> <<>>, exceptions |-> <<>>, messages |-> <<>>,
     permanent_progressbar_slots |-> 0, redraw_frequency_millis |-> 0,
     level |-> INFO, task_millis_to_removal |-> 0,
     longest_bar_prefix_size |-> 0, refresh_timer |-> 1000,
     changes_made |-> FALSE, status |-> "Running", screen |-> BlankScreen,
     log_level |-> INFO, sink |-> <<>>, nattempt |-> 0, npaint |-> 0,
     purged |-> {}, painted_at |-> None, message_number |-> 0, exception_number |-> 0,
     pushed_messages |-> <<>>, pushed_exceptions |-> <<>>]

\* __init__ (set_configuration with the constructor's arguments) for a
\* constructor call drawn from configurations; run then sets the file
\* logger's level to INFO and waits for the first command.
Construct(configurations) ==
    /\ time_millis = 0
    /\ output = [at |-> "idle"]
    /\ \E command \in configurations :
           Start(set_configuration(ClassAttributes, command))
    /\ now = 1000
    /\ o = [cls |-> "None"]
    /\ ncmd = 0
    /\ buffers = [p \in Producers |-> <<>>]
    /\ queue = <<>>
    /\ channel = <<>>
    /\ handled = <<>>
    /\ reached_at = [k \in TaskIds |-> None]

(* ------------------------------ actions ------------------------------- *)
LastTime == 1000 + 500 * MaxTicks

\* A loop that goes on taking commands after ExitCommand.
handle_after_exit(command, d) ==
    /\ now + d <= LastTime
    /\ LET fresh == [Self EXCEPT !.nattempt = 0, !.npaint = 0, !.purged = {},
                                 !.sink = <<>>]
       IN  Commit(run(fresh, command, now, now + d))
    /\ now' = now + d
    /\ o' = command
    /\ ncmd' = ncmd + 1

\* `o = dill.loads(self.queue.get())` and the handling of o.  The handler
\* starts at the current time; d is the time that passes before the second
\* redraw call of a log or exception handler.
handle(command, d) ==
    /\ status = "Running"
    /\ now + d <= LastTime
    /\ LET fresh == [Self EXCEPT !.nattempt = 0, !.npaint = 0, !.purged = {},
                                 !.sink = <<>>]
       IN  Commit(run(fresh, command, now, now + d))
    /\ now' = now + d
    /\ o' = command
    /\ ncmd' = ncmd + 1

\* A producer's put and the loop's get of the same command as one step, for
\* the specifications that leave the queue out: it is empty before and after.
Dispatch(command, d) ==
    /\ handle(command, d)
    /\ UNCHANGED <<buffers, queue, channel, handled, reached_at, time_millis, output>>

\* The loop waits in queue.get() while the clock runs.
Tick ==
    /\ status = "Running"
    /\ \E d \in Steps : now + d <= LastTime /\ now' = now + d
    /\ UNCHANGED <<tasks, to_delete, exceptions, messages,
                   permanent_progressbar_slots, redraw_frequency_millis, level,
                   task_millis_to_removal, longest_bar_prefix_size, refresh_timer,
                   changes_made, status, screen, log_level, sink, o, ncmd,
                   nattempt, npaint, purged, painted_at, message_number,
                   exception_number,
                   pushed_messages, pushed_exceptions,
                   buffers, queue, channel, handled, reached_at, time_millis, output>>

\* The producers send at most MaxCmds commands.
Flush ==
    /\ ncmd < MaxCmds
    /\ Dispatch(FlushCommand, 0)
Exit ==
    /\ ncmd < MaxCmds
    /\ Dispatch(ExitCommand, 0)

(* ----------------- the task registry and its repaints ----------------- *)
\* Producers that create, advance and replace progress bars, force repaints
\* and change the redraw interval and the removal delay.
TaskConfigurations ==
    {SetConfigurationCommand(1, 1, 0, frequency, INFO, removal) :
        frequency \in RedrawFrequencies, removal \in RemovalDelays}
TaskNewTasks ==
    {NewTaskCommand("t1", TaskProgress(total, "p", keep_alive, display_time)) :
        total \in Totals, keep_alive \in BOOLEAN, display_time \in BOOLEAN}
    \cup {NewTaskCommand("t2", TaskProgress(total, "long", FALSE, FALSE)) :
              total \in Totals}
TaskUpdates ==
    {UpdateProgressCommand(id, progress) : id \in TaskIds, progress \in ProgressValues}

NewTask ==
    \E command \in TaskNewTasks :
        /\ ncmd < MaxCmds
        /\ Dispatch(command, 0)
UpdateProgress ==
    \E command \in TaskUpdates :
        /\ ncmd < MaxCmds
        /\ Dispatch(command, 0)
Reconfigure ==
    \E command \in TaskConfigurations :
        /\ ncmd < MaxCmds
        /\ Dispatch(command, 0)

InitTasks == Construct(TaskConfigurations)
NextTasks ==
    \/ NewTask
    \/ UpdateProgress
    \/ Flush
    \/ Reconfigure
    \/ Exit
    \/ Tick
SpecTasks == InitTasks /\ [][NextTasks]_vars

(* -------------------------- the ring buffers -------------------------- *)
\* Producers that log, report exceptions and resize the two buffers.
RingConfigurations ==
    {SetConfigurationCommand(n, n, 0, 500, lvl, 0) :
        n \in 0..MaxCapacity, lvl \in {INFO, ERROR}}
RingMessages ==
    {LogMessageCommand(text, lvl) : text \in Texts, lvl \in {INFO, ERROR}}
RingStacktraces ==
    {StacktraceCommand("7", stacktrace, NoneStr) : stacktrace \in Stacktraces}

LogMessage ==
    \E command \in RingMessages, d \in Elapse :
        /\ ncmd < MaxCmds
        /\ Dispatch(command, d)
Stacktrace ==
    \E command \in RingStacktraces, d \in Elapse :
        /\ ncmd < MaxCmds
        /\ Dispatch(command, d)
SetConfiguration ==
    \E command \in RingConfigurations :
        /\ ncmd < MaxCmds
        /\ Dispatch(command, 0)

InitRings == Construct(RingConfigurations)
NextRings ==
    \/ LogMessage
    \/ Stacktrace
    \/ SetConfiguration
    \/ Flush
    \/ Tick
SpecRings == InitRings /\ [][NextRings]_vars

(* --------------------------- the redraw gate -------------------------- *)
\* Producers that make the renderer call redraw under changing intervals:
\* one kept-alive bar, forced repaints, log messages, new configurations.
GateConfigurations ==
    {SetConfigurationCommand(1, 1, 0, frequency, INFO, 0) :
        frequency \in RedrawFrequencies}
GateNewTasks == {NewTaskCommand("t1", TaskProgress(2, "p", TRUE, FALSE))}
GateUpdates == {UpdateProgressCommand("t1", progress) : progress \in {1, 2}}
GateMessages == {LogMessageCommand("a", INFO)}

GateNewTask ==
    \E command \in GateNewTasks :
        /\ ncmd < MaxGateCmds
        /\ Dispatch(command, 0)
GateUpdateProgress ==
    \E command \in GateUpdates :
        /\ ncmd < MaxGateCmds
        /\ Dispatch(command, 0)
GateLogMessage ==
    \E command \in GateMessages, d \in Elapse :
        /\ ncmd < MaxGateCmds
        /\ Dispatch(command, d)
GateSetConfiguration ==
    \E command \in GateConfigurations :
        /\ ncmd < MaxGateCmds
        /\ Dispatch(command, 0)
GateFlush ==
    /\ ncmd < MaxGateCmds
    /\ Dispatch(FlushCommand, 0)

InitGate == Construct(GateConfigurations)
NextGate ==
    \/ GateNewTask
    \/ GateUpdateProgress
    \/ GateLogMessage
    \/ GateSetConfiguration
    \/ GateFlush
    \/ Tick
SpecGate == InitGate /\ [][NextGate]_vars

(* --------------------------- the level filter ------------------------- *)
\* Producers that log at every level and report exceptions while the console
\* level and the file logger's level change; one bar may be on display.
LevelConfigurations ==
    {SetConfigurationCommand(1, 1, 0, 500, lvl, 0) : lvl \in ConsoleLevels}
LevelMessages == {LogMessageCommand("a", lvl) : lvl \in Levels}
LevelSetLevels ==
    {SetLevelCommand(lvl, console_only) :
        lvl \in ConsoleLevels, console_only \in BOOLEAN}
LevelStacktraces == {StacktraceCommand("7", "x", "worker")}
LevelNewTasks ==
    {NewTaskCommand("t1", TaskProgress(total, "p", TRUE, FALSE)) : total \in Totals}

LevelLogMessage ==
    \E command \in LevelMessages, d \in Elapse :
        /\ ncmd < MaxLevelCmds
        /\ Dispatch(command, d)
LevelStacktrace ==
    \E command \in LevelStacktraces, d \in Elapse :
        /\ ncmd < MaxLevelCmds
        /\ Dispatch(command, d)
SetLevel ==
    \E command \in LevelSetLevels :
        /\ ncmd < MaxLevelCmds
        /\ Dispatch(command, 0)
LevelNewTask ==
    \E command \in LevelNewTasks :
        /\ ncmd < MaxLevelCmds
        /\ Dispatch(command, 0)

InitLevels == Construct(LevelConfigurations)
NextLevels ==
    \/ LevelLogMessage
    \/ LevelStacktrace
    \/ SetLevel
    \/ LevelNewTask
    \/ Tick
SpecLevels == InitLevels /\ [][NextLevels]_vars

(* ------------------------------ the queue ----------------------------- *)
\* Several producers put commands while the loop takes them: a put leaves
\* the command in the producer's own buffer, the producer's feeder thread
\* writes the buffer to the pipe oldest first, and queue.get() reads the pipe
\* oldest first.
loop_vars == <<tasks, to_delete, exceptions, messages, permanent_progressbar_slots,
               redraw_frequency_millis, level, task_millis_to_removal,
               longest_bar_prefix_size, refresh_timer, changes_made, status,
               screen, log_level, sink, o, ncmd, nattempt, npaint, purged,
               painted_at, message_number, exception_number, pushed_messages,
               pushed_exceptions>>

ChannelConfigurations == {SetConfigurationCommand(2, 1, 0, 500, INFO, 0)}

\* The number of commands producer p has put so far.
NumberPut(p) ==
    Len(SelectSeq(channel, LAMBDA item : item.src = p)) + Len(buffers[p])

\* What a producer may put as its n-th command: an info message that names
\* the producer and n, a flush, a task with nothing to do, or terminate.
ChannelCommands(p, n) ==
    {LogMessageCommand(p \o "." \o ToString(n), INFO),
     NewTaskCommand("t1", TaskProgress(0, "p", TRUE, FALSE)),
     FlushCommand, ExitCommand}

put(p, command) ==
    buffers' = [buffers EXCEPT ![p] =
                   Append(@, [src |-> p, n |-> NumberPut(p) + 1, command |-> command])]

Put(p) ==
    /\ NumberPut(p) < MaxPuts
    /\ \E command \in ChannelCommands(p, NumberPut(p) + 1) : put(p, command)
    /\ UNCHANGED <<loop_vars, now, queue, channel, handled, reached_at, time_millis, output>>

\* The feeder thread of producer p writes one buffered command to the pipe.
feed_newest_first(p) ==
    /\ queue' = Append(queue, buffers[p][Len(buffers[p])])
    /\ channel' = Append(channel, buffers[p][Len(buffers[p])])
    /\ buffers' = [buffers EXCEPT ![p] = SubSeq(@, 1, Len(@) - 1)]

feed(p) ==
    /\ queue' = Append(queue, Head(buffers[p]))
    /\ channel' = Append(channel, Head(buffers[p]))
    /\ buffers' = [buffers EXCEPT ![p] = Tail(@)]

Feed(p) ==
    /\ buffers[p] # <<>>
    /\ feed(p)
    /\ UNCHANGED <<loop_vars, now, handled, reached_at, time_millis, output>>

\* One turn of the loop: queue.get() and the handling of what it returned.
Get ==
    /\ queue # <<>>
    /\ handle(Head(queue).command, 0)
    /\ queue' = Tail(queue)
    /\ handled' = Append(handled, Head(queue))
    /\ UNCHANGED <<buffers, channel, reached_at, time_millis, output>>

InitChannel == Construct(ChannelConfigurations)
NextChannel ==
    \/ \E p \in Producers : Put(p)
    \/ \E p \in Producers : Feed(p)
    \/ Get
SpecChannel == InitChannel /\ [][NextChannel]_vars

(* ------------------------- the removal of tasks ----------------------- *)
\* Producers that create, complete, lower and complete again tasks that are
\* not kept alive, and force repaints for as long as they like: the loop's
\* counter of commands keeps the parity of their number.
RemovalConfigurations ==
    {SetConfigurationCommand(1, 1, 0, 0, INFO, removal) : removal \in RemovalDelays}
RemovalNewTasks ==
    {NewTaskCommand("t1", TaskProgress(2, "p", FALSE, FALSE))}
    \cup {NewTaskCommand("t2", TaskProgress(total, "long", FALSE, FALSE)) :
              total \in Totals}
RemovalUpdates ==
    {UpdateProgressCommand(task_id, progress) :
        task_id \in TaskIds, progress \in {1, 2}}

\* When the task under key k last reached its total, after the command was
\* handled at time t: now if the command brought it there or created it
\* there, as before (was) if it was there already.
reached(after, was, command, k, t) ==
    IF ~OD_has(after, k) \/ OD_get(after, k).progress # OD_get(after, k).total
    THEN None
    ELSE IF was = None \/ (command.cls = "NewTaskCommand" /\ command.task_id = k)
         THEN t
         ELSE was

\* One turn of the loop, as handle, with the times of completion recorded.
Serve(command) ==
    /\ LET fresh == [Self EXCEPT !.nattempt = 0, !.npaint = 0, !.purged = {},
                                 !.sink = <<>>]
       IN  Commit(run(fresh, command, now, now))
    /\ o' = command
    /\ ncmd' = (ncmd + 1) % 2
    /\ reached_at' = [k \in TaskIds |-> reached(tasks', reached_at[k], command, k, now)]
    /\ UNCHANGED <<now, buffers, queue, channel, handled, time_millis, output>>

RemovalNewTask ==
    \E command \in RemovalNewTasks :
        /\ status = "Running"
        /\ Serve(command)
RemovalUpdateProgress ==
    \E command \in RemovalUpdates :
        /\ status = "Running"
        /\ Serve(command)
RemovalFlush ==
    /\ status = "Running"
    /\ Serve(FlushCommand)

InitRemoval == Construct(RemovalConfigurations)
NextRemoval ==
    \/ RemovalNewTask
    \/ RemovalUpdateProgress
    \/ RemovalFlush
    \/ Tick
SpecRemoval == InitRemoval /\ [][NextRemoval]_vars

\* The loop handles a flush: what every step of RemovalFlush does to the
\* loop's record of the command it handled, and no other step.
FlushHandled ==
    /\ status = "Running"
    /\ o' = FlushCommand
    /\ ncmd' = (ncmd + 1) % 2
    /\ now' = now

\* One task that is removed when complete, next to a task with nothing to
\* do, with the clock running on and flushes that keep coming: the producers
\* of a program that calls flush() again and again, and a loop that takes
\* what is in its queue.  A step of RemovalFlush is possible, and changes
\* ncmd, exactly while the loop is running: the last condition is weak
\* fairness of RemovalFlush.
LiveNewTasks ==
    {NewTaskCommand("t1", TaskProgress(2, "p", FALSE, FALSE)),
     NewTaskCommand("t2", TaskProgress(0, "long", TRUE, FALSE))}
LiveUpdates ==
    {UpdateProgressCommand("t1", progress) : progress \in {1, 2}}
LiveNewTask ==
    \E command \in LiveNewTasks :
        /\ status = "Running"
        /\ Serve(command)
LiveUpdateProgress ==
    \E command \in LiveUpdates :
        /\ status = "Running"
        /\ Serve(command)
NextRemovalLive ==
    \/ LiveNewTask
    \/ LiveUpdateProgress
    \/ RemovalFlush
    \/ Tick
SpecRemovalLive ==
    /\ InitRemoval /\ [][NextRemovalLive]_vars
    /\ WF_vars(Tick)
    /\ ([]<>(status # "Running") \/ []<><<FlushHandled>>_vars)

(* ------------------------ the elapsed-time text ----------------------- *)
\* millis_to_human_readable called on its own, for durations around every
\* carry: a few hours, days and weeks, whole seconds and halves of a second.
Durations ==
    {((((w * 7 + d) * 24 + h) * 60 + m) * 60 + sec) * 1000 + ms :
        w \in 0..MaxWeeks, d \in {0, 1, 6}, h \in {0, 1, 23}, m \in {0, 1, 59},
        sec \in {0, 1, 59}, ms \in {0, 499, 500}}

\* The call returns its text, or stays in the loop that does not end.
returned(result) ==
    IF result.hangs
    THEN [at |-> "looping"]
    ELSE [at |-> "returned", text |-> result.text, seconds |-> result.seconds,
          minutes |-> result.minutes, hours |-> result.hours,
          days |-> result.days, weeks |-> result.weeks]

Call ==
    /\ output.at \in {"idle", "returned"}
    /\ time_millis' \in Durations
    /\ output' = [at |-> "called"]
    /\ UNCHANGED <<loop_vars, now, buffers, queue, channel, handled, reached_at>>

Return ==
    /\ output.at = "called"
    /\ output' = returned(millis_to_human_readable(time_millis))
    /\ UNCHANGED <<loop_vars, now, buffers, queue, channel, handled, reached_at,
                   time_millis>>

FormatConfigurations == {SetConfigurationCommand(1, 1, 0, 500, INFO, 500)}
InitFormat == Construct(FormatConfigurations)
NextFormat == Call \/ Return
SpecFormat == InitFormat /\ [][NextFormat]_vars

(* ============================== claims ================================ *)
\* The tasks of the registry, in display order.
TaskAt(k) == OD_get(tasks, k)
Known(k) == OD_has(tasks, k)
\* This step is the dispatch loop handling one command (o' is that command).
Handled == ncmd' = ncmd + 1
\* This step handles a NewTask / UpdateProgress command for key k.
Touches(k) ==
    /\ Handled
    /\ o'.cls \in {"NewTaskCommand", "UpdateProgressCommand"}
    /\ o'.task_id = k

\* C1: after any sequence of NewTask and UpdateProgress commands (negative and
\* overflowing values included) every task of the registry has
\* 0 <= progress <= total.
C1_ProgressInRange ==
    \A i \in 1..Len(tasks.keys) :
        0 <= tasks.val[i].progress /\ tasks.val[i].progress <= tasks.val[i].total

\* C1 witness: an update above the total was handled and left a kept-alive
\* task (which no repaint clamps) exactly at its total.
C1_Witness ==
    /\ o.cls = "UpdateProgressCommand"
    /\ o.progress = 3
    /\ Known(o.task_id)
    /\ TaskAt(o.task_id).keep_alive
    /\ TaskAt(o.task_id).total = 2
    /\ TaskAt(o.task_id).progress = 2

\* C2: once Flush has been handled, a repaint has taken place in it, the dirty
\* flag is false and the screen shows the registry (every task, in order,
\* with its current progress), the message ring and the exception ring as
\* the commands before the Flush left them -- for every redraw interval.
C2_FlushShowsEverything ==
    o.cls = "FlushCommand" =>
        /\ status = "Running"
        /\ npaint = 1
        /\ ~changes_made
        /\ screen.messages = messages
        /\ screen.exceptions = exceptions
        /\ Len(screen.bars) = Len(tasks.keys)
        /\ \A i \in 1..Len(tasks.keys) :
               /\ screen.bars[i].task_id = tasks.keys[i]
               /\ screen.bars[i].filled * tasks.val[i].total
                      = tasks.val[i].bar_length * tasks.val[i].progress

\* C3: the message ring never holds more entries than the capacity the last
\* configuration asked for.
C3_MessagesWithinCapacity == Len(messages) <= message_number

\* The last n entries of a sequence, oldest first.
LastN(seq, n) == SubSeq(seq, Len(seq) - n + 1, Len(seq))
\* A sequence back to front.
Reverse(seq) == [i \in 1..Len(seq) |-> seq[Len(seq) + 1 - i]]

\* C4: with capacity N, once more than N messages have been pushed the ring
\* is exactly the last N pushed messages, oldest first.
C4_LastMessagesKept ==
    Len(pushed_messages) > message_number =>
        messages = LastN(pushed_messages, message_number)

\* C5: the exception ring never holds more entries than the capacity the last
\* configuration asked for.
C5_ExceptionsWithinCapacity == Len(exceptions) <= exception_number

\* C6: with capacity M, once more than M exceptions have been reported the
\* ring is exactly the M most recent ones, newest first.
C6_LastExceptionsKept ==
    Len(pushed_exceptions) > exception_number =>
        exceptions = Reverse(LastN(pushed_exceptions, exception_number))

\* This step handles an UpdateProgress command whose clamped value is the
\* current progress of a task of the registry.
NoopUpdate ==
    /\ Handled
    /\ o'.cls = "UpdateProgressCommand"
    /\ Known(o'.task_id)
    /\ LET task == TaskAt(o'.task_id)
           v == o'.progress
       IN  task.progress = (IF v > task.total THEN task.total
                            ELSE IF v < 0 THEN 0 ELSE v)

\* C7: an UpdateProgress command whose clamped value equals the current
\* progress does not touch the dirty flag, calls redraw not once, and so
\* repaints nothing.
C7_NoopUpdateIsSilent ==
    [][NoopUpdate =>
          /\ changes_made' = changes_made
          /\ nattempt' = 0
          /\ npaint' = 0
          /\ screen' = screen
          /\ refresh_timer' = refresh_timer]_vars

\* C7 witness: an update above the total of a task already at its total was
\* handled without a call of redraw, the state being clean.
C7_Witness ==
    /\ o.cls = "UpdateProgressCommand"
    /\ o.progress = 3
    /\ Known(o.task_id)
    /\ TaskAt(o.task_id).progress = TaskAt(o.task_id).total
    /\ TaskAt(o.task_id).total = 2
    /\ nattempt = 0
    /\ ~changes_made

\* The task under k is complete, may be removed, and a repaint has already
\* started its removal timer, the removal delay having passed since.
PastThreshold(k) ==
    /\ Known(k)
    /\ ~TaskAt(k).keep_alive
    /\ TaskAt(k).progress = TaskAt(k).total
    /\ ~Falsy(TaskAt(k).timeout_chrono)
    /\ now - TaskAt(k).timeout_chrono >= task_millis_to_removal

\* This step repaints the whole screen (no crash on the way) and its command
\* is none for key k.
RepaintsAround(k) ==
    /\ Handled
    /\ npaint' >= 1
    /\ status' = "Running"
    /\ ~Touches(k)

\* C8 as claimed: with a removal delay of 0, a complete task that is not kept
\* alive is gone when the next repaint past the threshold has finished.
C8_GoneAfterNextRepaint ==
    [][\A k \in TaskIds :
          (task_millis_to_removal = 0 /\ task_millis_to_removal' = 0
           /\ PastThreshold(k) /\ RepaintsAround(k))
          => ~OD_has(tasks', k)]_vars

\* C8 as amended: the repaint past the threshold only marks the task (it is
\* in the pending-deletion list afterwards, unless it was marked before and
\* is now deleted); the task is gone when the repaint after it has finished.
C8_MarkedThenGone ==
    [][\A k \in TaskIds :
          /\ (PastThreshold(k) /\ RepaintsAround(k))
                => (~OD_has(tasks', k)
                    \/ \E i \in 1..Len(to_delete') : to_delete'[i] = k)
          /\ (Handled /\ npaint' >= 1 /\ (\E i \in 1..Len(to_delete) : to_delete[i] = k))
                => ~OD_has(tasks', k)]_vars

\* C8 witness: with a removal delay of 0, a repaint has just deleted a task.
C8_Witness ==
    /\ task_millis_to_removal = 0
    /\ npaint >= 1
    /\ purged # {}
    /\ \A k \in purged : ~Known(k)

\* C9: a task whose keep_alive is true is never removed: the task a NewTask
\* command stores with keep_alive, or a keep_alive task no command replaces,
\* is still in the registry after the step.
C9_KeepAliveNeverRemoved ==
    [][\A k \in TaskIds :
          (IF Handled /\ o'.cls = "NewTaskCommand" /\ o'.task_id = k
           THEN o'.task.keep_alive
           ELSE Known(k) /\ TaskAt(k).keep_alive)
          => OD_has(tasks', k)]_vars

\* C10: once end_time is set, no UpdateProgress command changes it.
C10_EndTimeSetOnce ==
    [][\A k \in TaskIds :
          (/\ Handled
           /\ o'.cls = "UpdateProgressCommand"
           /\ o'.task_id = k
           /\ Known(k)
           /\ ~Falsy(TaskAt(k).end_time)
           /\ OD_has(tasks', k))
          => OD_get(tasks', k).end_time = TaskAt(k).end_time]_vars

\* The bars a screen shows for key k (one at most).
BarsOf(scr, k) == {scr.bars[i] : i \in {j \in 1..Len(scr.bars) : scr.bars[j].task_id = k}}

\* C11: once a repaint has computed the elapsed-at-completion text of a task
\* (the empty text of a task that completed within zero seconds included),
\* every later repaint of that task shows this same text, whatever updates
\* arrive in between.
C11_FrozenElapsedShownAgain ==
    [][\A k \in TaskIds :
          (/\ Handled
           /\ ~(o'.cls = "NewTaskCommand" /\ o'.task_id = k)
           /\ Known(k)
           /\ TaskAt(k).elapsed_time_at_end # NoneStr
           /\ npaint' >= 1)
          => \A bar \in BarsOf(screen', k) :
                 bar.time = TaskAt(k).elapsed_time_at_end]_vars

\* This step handles a SetConfiguration command.
Configures == Handled /\ o'.cls = "SetConfigurationCommand"

\* C12: a SetConfiguration command that asks for fewer messages than the
\* ring holds keeps exactly the most recent ones (the tail of the ring) in
\* their order; one that asks for fewer exceptions keeps the most recent
\* ones (the head of the ring), newest first.
C12_ShrinkKeepsNewest ==
    [][Configures =>
          /\ (o'.message_number < Len(messages)
                => messages' = LastN(messages, o'.message_number))
          /\ (o'.exception_number < Len(exceptions)
                => exceptions' = SubSeq(exceptions, 1, o'.exception_number))]_vars

\* C12 witness: the last repaint showed two messages, the older one a real
\* message; a SetConfiguration command has since cut the ring to the newer.
C12_Witness ==
    /\ o.cls = "SetConfigurationCommand"
    /\ message_number = 1
    /\ Len(screen.messages) = 2
    /\ screen.messages[1] # ""
    /\ screen.messages[1] # screen.messages[2]
    /\ messages = <<screen.messages[2]>>

\* C13 as claimed: growing a ring keeps its entries in order and adds the
\* empty slots at the end where entries are inserted (the tail of the
\* messages, the head of the exceptions).
C13_GrowPadsInsertionEnd ==
    [][Configures =>
          /\ (o'.message_number > Len(messages)
                => messages' = messages \o Blank(o'.message_number - Len(messages)))
          /\ (o'.exception_number > Len(exceptions)
                => exceptions' = Blank(o'.exception_number - Len(exceptions))
                                     \o exceptions)]_vars

\* C13 as amended: growing a ring keeps its entries in order and adds the
\* empty slots at the end where entries are evicted (the head of the
\* messages, the tail of the exceptions).
C13_GrowPadsEvictionEnd ==
    [][Configures =>
          /\ (o'.message_number > Len(messages)
                => messages' = Blank(o'.message_number - Len(messages)) \o messages)
          /\ (o'.exception_number > Len(exceptions)
                => exceptions' = exceptions
                                     \o Blank(o'.exception_number - Len(exceptions)))]_vars

\* C13 witness: the last repaint showed a ring of one real message; a
\* SetConfiguration command has since grown the ring to two slots.
C13_Witness ==
    /\ o.cls = "SetConfigurationCommand"
    /\ message_number = 2
    /\ Len(screen.messages) = 1
    /\ screen.messages[1] # ""
    /\ messages = <<"", screen.messages[1]>>

\* This step handles a command whose handler sets the dirty flag and calls
\* redraw exactly once, at the time of the step.
AttemptsOnce ==
    /\ Handled
    /\ nattempt' = 1
    /\ o'.cls \in {"NewTaskCommand", "UpdateProgressCommand", "FlushCommand"}

\* The time of the first repaint of a step that repaints: a log or exception
\* handler that repaints twice does so first when it starts.
FirstRepaint == IF npaint' = 2 THEN now ELSE refresh_timer'

\* C14: a redraw attempt repaints exactly when the state is dirty and more
\* than the redraw interval has passed since lastRepaint (which Flush has set
\* to 0); and a repaint that is not Flush's comes more than the redraw
\* interval after the repaint before it.
C14_GateAndSpacing ==
    [][/\ AttemptsOnce =>
              (npaint' = 1 <=>
                   now' - (IF o'.cls = "FlushCommand" THEN 0 ELSE refresh_timer)
                       > redraw_frequency_millis)
       /\ (Handled /\ npaint' >= 1 /\ o'.cls # "FlushCommand" /\ painted_at # None)
              => /\ FirstRepaint - painted_at > redraw_frequency_millis
                 /\ npaint' = 2 => refresh_timer' - now > redraw_frequency_millis
      ]_vars

\* C15: an UpdateProgress command for a key that is not in the registry
\* creates no task and changes neither the registry, the rings, the pending
\* deletions, the dirty flag, lastRepaint nor the screen; redraw is not called.
C15_UnknownKeyIgnored ==
    [][(Handled /\ o'.cls = "UpdateProgressCommand" /\ ~Known(o'.task_id))
          => /\ tasks' = tasks
             /\ to_delete' = to_delete
             /\ messages' = messages
             /\ exceptions' = exceptions
             /\ changes_made' = changes_made
             /\ refresh_timer' = refresh_timer
             /\ screen' = screen
             /\ nattempt' = 0
             /\ npaint' = 0]_vars

\* C15 witness: an update for a key the registry does not hold was handled
\* without a call of redraw, another task being registered and the state clean.
C15_Witness ==
    /\ o.cls = "UpdateProgressCommand"
    /\ ~Known(o.task_id)
    /\ Len(tasks.keys) = 1
    /\ nattempt = 0
    /\ ~changes_made

\* The keys of a sequence that a step did not delete.
Surviving(keys, gone) == SelectSeq(keys, LAMBDA k : k \notin gone)

\* C16: when a NewTask command for key k has been handled, the registry holds
\* under k the task of the command with nothing of the task it replaced
\* (progress 0, no end time, no frozen text, chronos unset or started by this
\* very command); k stands where it stood if it was known and last if it was
\* not, the other keys keeping their order.
C16_NewTaskUpserts ==
    [][\A k \in TaskIds :
          (Handled /\ o'.cls = "NewTaskCommand" /\ o'.task_id = k)
          => /\ OD_has(tasks', k)
             /\ tasks'.keys =
                    Surviving(IF Known(k) THEN tasks.keys ELSE Append(tasks.keys, k),
                              purged')
             /\ LET task == OD_get(tasks', k)
                IN  /\ task.progress = 0
                    /\ task.end_time = None
                    /\ task.elapsed_time_at_end = NoneStr
                    /\ task.begin_time \in {None, now'}
                    /\ task.timeout_chrono \in {None, now'}
                    /\ task.total = o'.task.total
                    /\ task.prefix = o'.task.prefix
                    /\ task.keep_alive = o'.task.keep_alive
                    /\ task.display_time = o'.task.display_time]_vars

\* The name a level handler writes into its message.
LevelName(levelno) ==
    CASE levelno = DEBUG -> "DEBUG"
      [] levelno = INFO -> "INFO"
      [] levelno = WARNING -> "WARNING"
      [] levelno = ERROR -> "ERROR"
      [] levelno = CRITICAL -> "CRITICAL"

\* This step handles a LogMessage command of one of the five levels.
Logs == Handled /\ o'.cls = "LogMessageCommand" /\ o'.level \in Levels

\* C17: a LogMessage command is pushed to the message ring (its formatted
\* text becomes the newest entry) exactly when its level is at least the
\* console level; a command filtered out leaves the ring and the dirty flag
\* as they were.
C17_ShownIffAtLeastConsoleLevel ==
    [][Logs =>
          IF o'.level >= level
          THEN /\ Len(messages') > 0
               /\ messages'[Len(messages')] =
                      current_timestamp(now) \o " [" \o LevelName(o'.level) \o "]\t"
                          \o o'.text \o "\n"
               /\ Len(pushed_messages') = Len(pushed_messages) + 1
          ELSE /\ messages' = messages
               /\ changes_made' = changes_made
               /\ pushed_messages' = pushed_messages]_vars

\* C18: whatever the console level and the redraw gate, handling a LogMessage
\* command calls the file logger exactly once, at the level of the command
\* and with its text.
C18_LoggedToFileOnce ==
    [][Logs =>
          /\ Len(sink') = 1
          /\ sink'[1].levelno = o'.level
          /\ sink'[1].text \in {"\t" \o o'.text, "\t\t" \o o'.text}]_vars

\* The text throw formats for a command handled at time t.
ExceptionText(command, t) ==
    current_timestamp(t) \o " [EXCEPTION]\t[Process " \o command.pid
        \o (IF command.process_title # NoneStr
            THEN " - " \o command.process_title ELSE "")
        \o "]:\n" \o command.stacktrace \o "\n"

\* C19: whatever the console level, handling an exception command puts its
\* text at the head of the exception ring, marks the state dirty (the flag is
\* set afterwards unless a repaint of this command cleared it) and calls the
\* file logger exactly once, at CRITICAL.
C19_ExceptionShownAndLogged ==
    [][(Handled /\ o'.cls = "StacktraceCommand")
          => /\ Len(exceptions') > 0
             /\ exceptions'[1] = ExceptionText(o', now)
             /\ (changes_made' \/ npaint' >= 1)
             /\ Len(sink') = 1
             /\ sink'[1].levelno = CRITICAL
             /\ sink'[1].text = "\t" \o ExceptionText(o', now)]_vars

\* C20: a SetLevel command sets the console level to its level; the file
\* logger's level becomes that level when console_only is false and stays
\* when it is true; the registry, the pending deletions, both rings, the
\* dirty flag, lastRepaint and the screen stay, and redraw is not called.
C20_SetLevelFrame ==
    [][(Handled /\ o'.cls = "SetLevelCommand")
          => /\ level' = o'.level
             /\ log_level' = (IF o'.console_only THEN log_level ELSE o'.level)
             /\ tasks' = tasks
             /\ to_delete' = to_delete
             /\ messages' = messages
             /\ exceptions' = exceptions
             /\ changes_made' = changes_made
             /\ refresh_timer' = refresh_timer
             /\ screen' = screen
             /\ nattempt' = 0]_vars

\* C20 witness: with a message in the ring, a console-only SetLevel command
\* has set the console level to DEBUG while the file logger, which an earlier
\* SetLevel command had set to ERROR, kept its level.
C20_Witness ==
    /\ o.cls = "SetLevelCommand"
    /\ o.console_only
    /\ o.level = DEBUG
    /\ level = DEBUG
    /\ log_level = ERROR
    /\ messages # <<"">>

\* The commands the loop took off the pipe are the first ones that entered it.
HandledInChannelOrder == handled = SubSeq(channel, 1, Len(handled))
\* The loop has left through a Shutdown: that was the last command it took
\* and the first Shutdown of the channel.
StoppedAtFirstShutdown ==
    /\ handled # <<>>
    /\ \A i \in 1..Len(handled) :
           handled[i].command = ExitCommand <=> i = Len(handled)

C22_PerProducerOrder ==
    \A p \in Producers :
        /\ LET mine == SelectSeq(handled, LAMBDA item : item.src = p)
           IN  \A i \in 1..Len(mine) : mine[i].n = i
        /\ \A i, j \in 1..Len(messages) : \A m, n \in 1..MaxPuts :
               /\ i < j
               /\ \E t \in 0..MaxTicks :
                      messages[i] = current_timestamp(1000 + 500 * t) \o " [INFO]\t"
                                        \o p \o "." \o ToString(m) \o "\n"
               /\ \E t \in 0..MaxTicks :
                      messages[j] = current_timestamp(1000 + 500 * t) \o " [INFO]\t"
                                        \o p \o "." \o ToString(n) \o "\n"
               => m < n
\* Both messages of one producer are in the ring, and the loop handled a
\* command of the other producer between them.
C22_Witness ==
    /\ Len(handled) = 3
    /\ handled[1].src = "p1" /\ handled[2].src = "p2" /\ handled[3].src = "p1"
    /\ \A i \in {1, 3} : handled[i].command.cls = "LogMessageCommand"
    /\ Len(messages) = 2
    /\ \A i \in 1..2 : \E t \in 0..MaxTicks :
           messages[i] = current_timestamp(1000 + 500 * t) \o " [INFO]\tp1."
                             \o ToString(i) \o "\n"

\* C23: a task that is not kept alive leaves the registry no earlier than
\* task_millis_to_removal milliseconds after its progress most recently
\* reached its total.
C23_StaysForRemovalDelay ==
    [][\A k \in TaskIds :
           Known(k) /\ ~TaskAt(k).keep_alive /\ ~OD_has(tasks', k)
           => /\ reached_at[k] # None
              /\ now' - reached_at[k] >= task_millis_to_removal]_vars

\* C24: the loop leaves the Running state only by handling a Shutdown
\* command: no handler and no repaint ends it with an uncaught error, for
\* tasks of any total from 0 up.
C24_OnlyShutdownEndsLoop ==
    status # "Running" => status = "Exited" /\ o = ExitCommand

\* C25: formatting an elapsed time ends for every duration, those of seven
\* days and more included, and what it returns is the duration's rounded
\* seconds carried at 60 s, 60 min, 24 h and 7 d.
C25_FormatTerminatesWithCarries ==
    /\ output.at # "looping"
    /\ output.at = "returned"
       => /\ output.seconds \in 0..59 /\ output.minutes \in 0..59
          /\ output.hours \in 0..23 /\ output.days \in 0..6 /\ output.weeks >= 0
          /\ (((output.weeks * 7 + output.days) * 24 + output.hours) * 60
                 + output.minutes) * 60 + output.seconds
             = py_round(time_millis, 1000)

\* The counts of a returned call with their unit names, largest unit first.
Units ==
    <<[n |-> output.weeks, unit |-> "w"], [n |-> output.days, unit |-> "d"],
      [n |-> output.hours, unit |-> "h"], [n |-> output.minutes, unit |-> "min"],
      [n |-> output.seconds, unit |-> "s"]>>
\* "3 min 0 s" for the counts 3 and 0.
RECURSIVE Spelled(_)
Spelled(units) ==
    IF units = <<>> THEN ""
    ELSE ToString(Head(units).n) \o " " \o Head(units).unit
         \o (IF Len(units) > 1 THEN " " ELSE "") \o Spelled(Tail(units))
\* The units from the largest one that is not zero down to the seconds.
RECURSIVE FromLargestNonZero(_)
FromLargestNonZero(units) ==
    IF units = <<>> \/ Head(units).n > 0 THEN units
    ELSE FromLargestNonZero(Tail(units))

\* C26 as stated: the text names only the units whose count is not zero,
\* largest first, and is empty for 0 seconds.
C26_OnlyNonZeroUnits ==
    output.at = "returned"
    => output.text = Spelled(SelectSeq(Units, LAMBDA u : u.n > 0))
\* C26, amended: the text names every unit from the largest one that is not
\* zero down to the seconds, zero counts below it included, and is empty
\* when the duration rounds to 0 seconds.
C26_UnitsFromLargestNonZeroDown ==
    output.at = "returned" => output.text = Spelled(FromLargestNonZero(Units))
\* Exactly 60 seconds: the text is "1 min 0 s".
C26_Witness ==
    /\ output.at = "returned"
    /\ time_millis = 60000
    /\ output.text = "1 min 0 s"

\* C27: a repaint shows the time of a task with display_time in brackets
\* exactly when the task's progress is at its total in that repaint (the bar
\* is at 100 %), and in parentheses otherwise.
C27_BracketsIffComplete ==
    \A i \in 1..Len(screen.bars) :
        screen.bars[i].container # ""
        => (screen.bars[i].container = "[]" <=> screen.bars[i].percents = 100)

\* C28: when the handling of a LogMessage or Exception command has repainted
\* and the screen shows both rings as they are, nothing has changed since
\* that repaint and the dirty flag is false.
C28_CleanAfterRepaintOfNewEntry ==
    (/\ status = "Running"
     /\ o.cls \in {"LogMessageCommand", "StacktraceCommand"}
     /\ npaint >= 1
     /\ screen.messages = messages
     /\ screen.exceptions = exceptions)
    => ~changes_made

\* Key k is in the pending-deletion list.
Marked(list, k) == \E i \in 1..Len(list) : list[i] = k

\* C29 as stated: when a repaint has finished, no task its sweep marked is
\* still in the registry.
C29_MarkedGoneInSameRepaint ==
    \A k \in TaskIds : Marked(to_delete, k) => ~Known(k)

\* C29, amended: the repaint whose sweep marks a task still paints it and
\* leaves it in the registry; the next repaint deletes it before its own
\* sweep and recomputes the longest-prefix width, so that when that repaint
\* finishes the task is gone and the width excludes it.
C29_MarkedGoneInNextRepaint ==
    [][\A k \in TaskIds :
          /\ (~Marked(to_delete, k) /\ Marked(to_delete', k))
                => /\ OD_has(tasks', k)
                   /\ BarsOf(screen', k) # {}
                   /\ longest_bar_prefix_size' >= Len(OD_get(tasks', k).prefix)
          /\ (Marked(to_delete, k) /\ now' = now /\ npaint' >= 1)
                => /\ ~OD_has(tasks', k)
                   /\ k \in purged'
                   /\ longest_bar_prefix_size' = longest_bar_prefix_value(tasks')]_vars
\* A repaint has just deleted the task with the long prefix, which an
\* earlier repaint had marked; the width is that of the task that is left.
C29_Witness ==
    /\ npaint >= 1
    /\ purged = {"t2"}
    /\ to_delete = <<>>
    /\ Known("t1") /\ ~Known("t2")
    /\ longest_bar_prefix_size = Len(TaskAt("t1").prefix)

\* The task under key k is complete, is not kept alive, and the removal
\* delay has passed since a repaint started its removal timer (no time needs
\* to pass for a delay of 0).
TimerRanOut(k) ==
    /\ Known(k)
    /\ ~TaskAt(k).keep_alive
    /\ TaskAt(k).progress = TaskAt(k).total
    /\ (IF Falsy(TaskAt(k).timeout_chrono) THEN 0 ELSE now - TaskAt(k).timeout_chrono)
           >= task_millis_to_removal

\* C30: while flushes keep repainting, a complete task that is not kept alive
\* and whose removal delay has passed is eventually removed from the
\* registry, unless a NewTask or UpdateProgress command for its key takes it
\* below its total or the repaints end with the process.
C30_EventuallyRemoved ==
    \A k \in TaskIds :
        TimerRanOut(k)
            ~> (~Known(k) \/ TaskAt(k).progress # TaskAt(k).total
                \/ status # "Running")
\* A flush has just removed a task after a removal delay of 500 ms.
C30_Witness ==
    /\ task_millis_to_removal = 500
    /\ o = FlushCommand
    /\ purged = {"t1"}
    /\ ~Known("t1")
    /\ status = "Running"

\* C31: after every command the stored longest-prefix width is the largest
\* prefix length over the tasks in the registry, 0 for an empty registry.
C31_WidthIsLongestPrefix ==
    /\ \A i \in 1..Len(tasks.keys) : Len(tasks.val[i].prefix) <= longest_bar_prefix_size
    /\ IF tasks.keys = <<>>
       THEN longest_bar_prefix_size = 0
       ELSE \E i \in 1..Len(tasks.keys) :
                Len(tasks.val[i].prefix) = longest_bar_prefix_size
\* A flush has just purged the task with the longest prefix: the width is
\* that of the shorter prefix left in the registry.
C31_Witness ==
    /\ o = FlushCommand
    /\ purged = {"t2"}
    /\ tasks.keys = <<"t1">>
    /\ longest_bar_prefix_size = 1
    /\ status = "Running"

\* The task under key k at the moment a repaint of this step deletes it: the
\* task the command has just stored or advanced, or the one that was there.
StoredAtRemoval(k) ==
    IF o'.cls = "NewTaskCommand" /\ o'.task_id = k THEN o'.task
    ELSE IF o'.cls = "UpdateProgressCommand" /\ o'.task_id = k
    THEN [TaskAt(k) EXCEPT !.progress = clamp_progress(TaskAt(k), o'.progress)]
    ELSE TaskAt(k)

\* C32: a task leaves the registry only if the task stored under its key at
\* that moment is at its total and is not kept alive.
C32_RemovedOnlyIfComplete ==
    [][\A k \in TaskIds :
           Known(k) /\ ~OD_has(tasks', k)
           => /\ StoredAtRemoval(k).progress = StoredAtRemoval(k).total
              /\ ~StoredAtRemoval(k).keep_alive]_vars

\* C33: every key in the pending-deletion list is a key of the registry and
\* is listed once.
C33_PendingAreRegisteredOnce ==
    /\ \A i \in 1..Len(to_delete) : OD_has(tasks, to_delete[i])
    /\ \A i, j \in 1..Len(to_delete) : to_delete[i] = to_delete[j] => i = j
\* One repaint has deleted the task an earlier repaint marked and has marked
\* the other task.
C33_Witness ==
    /\ to_delete # <<>>
    /\ purged # {}
    /\ status = "Running"

Rejected == ncmd' # ncmd /\ nattempt' >= 1 /\ npaint' = 0
\* The task the handler itself leaves under key k before it calls redraw.
StoredByHandler(k) ==
    IF o'.cls = "NewTaskCommand" /\ o'.task_id = k THEN o'.task
    ELSE IF o'.cls = "UpdateProgressCommand" /\ o'.task_id = k
    THEN set_progress(TaskAt(k), o'.progress, now)
    ELSE TaskAt(k)

\* C35: a redraw attempt the gate rejects changes nothing: the registry is
\* as the handler left it (no task clamped, timed or deleted), the pending
\* deletions and lastRepaint are as before the attempt, the dirty flag the
\* handler has set stays set, and the screen is as it was.
C35_RejectedAttemptChangesNothing ==
    [][Rejected =>
          /\ \A k \in TaskIds :
                 /\ OD_has(tasks', k) <=>
                        (Known(k) \/ (o'.cls = "NewTaskCommand" /\ o'.task_id = k))
                 /\ OD_has(tasks', k) => OD_get(tasks', k) = StoredByHandler(k)
          /\ to_delete' = to_delete
          /\ purged' = {}
          /\ changes_made'
          /\ refresh_timer' = (IF o'.cls = "FlushCommand" THEN 0 ELSE refresh_timer)
          /\ screen' = screen
          /\ status' = status]_vars
\* The gate has rejected the redraw of an UpdateProgress that brought a task
\* to its total: the task's removal timer has not been started.
C35_Witness ==
    /\ nattempt >= 1
    /\ npaint = 0
    /\ o.cls = "UpdateProgressCommand"
    /\ Known(o.task_id)
    /\ TaskAt(o.task_id).progress = TaskAt(o.task_id).total
    /\ Falsy(TaskAt(o.task_id).timeout_chrono)
    /\ changes_made

\* The entries of a ring that are not empty placeholder slots, in order.
Reals(ring) == SelectSeq(ring, LAMBDA entry : entry # "")
\* The ring holds an empty placeholder slot.
HasPlaceholder(ring) == \E i \in 1..Len(ring) : ring[i] = ""
\* The placeholders of the message ring are at its head, those of the
\* exception ring at its tail.
PlaceholdersAtEvictionEnd ==
    /\ \A i, j \in 1..Len(messages) : (i < j /\ messages[j] = "") => messages[i] = ""
    /\ \A i, j \in 1..Len(exceptions) : (i < j /\ exceptions[i] = "") => exceptions[j] = ""

\* C36: in both rings the placeholders sit at the eviction end, and an
\* insertion into a ring that holds a placeholder evicts no real entry: the
\* real entries afterwards are those before with the new one added.
C36_PlaceholdersEvictedFirst ==
    [][/\ PlaceholdersAtEvictionEnd'
       /\ (Len(pushed_messages') = Len(pushed_messages) + 1 /\ HasPlaceholder(messages))
            => Reals(messages')
                  = Append(Reals(messages), pushed_messages'[Len(pushed_messages')])
       /\ (Len(pushed_exceptions') = Len(pushed_exceptions) + 1
              /\ HasPlaceholder(exceptions))
            => Reals(exceptions')
                  = <<pushed_exceptions'[Len(pushed_exceptions')]>> \o Reals(exceptions)]_vars
\* A message and an exception are in rings that were enlarged after they were
\* pushed: each ring holds a placeholder next to the real entry.
C36_Witness ==
    /\ o.cls = "SetConfigurationCommand"
    /\ Len(Reals(messages)) = 1 /\ Len(messages) = 2
    /\ Len(Reals(exceptions)) = 1 /\ Len(exceptions) = 2

\* C37: a SetConfiguration command sets the four configuration values and
\* the lengths of the two rings and nothing else: the registry, the pending
\* deletions, the dirty flag, lastRepaint, the prefix width and the file
\* logger's level are as before, redraw is not called and the screen stays as
\* the last repaint left it.
C37_ConfigurationOnly ==
    [][Configures =>
          /\ permanent_progressbar_slots' = o'.permanent_progressbar_slots
          /\ redraw_frequency_millis' = o'.redraw_frequency_millis
          /\ level' = o'.level
          /\ task_millis_to_removal' = o'.task_millis_to_removal
          /\ Len(messages') = o'.message_number
          /\ Len(exceptions') = o'.exception_number
          /\ UNCHANGED <<tasks, to_delete, changes_made, refresh_timer,
                         longest_bar_prefix_size, log_level, status, screen>>
          /\ nattempt' = 0
          /\ npaint' = 0]_vars
\* A new configuration has been taken while a bar that no repaint has shown
\* yet waits in a dirty state: it is still not on the screen.
C37_Witness ==
    /\ o.cls = "SetConfigurationCommand"
    /\ changes_made
    /\ Known("t1")
    /\ screen.bars = <<>>
    /\ redraw_frequency_millis = 0
    /\ status = "Running"

====
